---- MODULE Spec2Model ----
(***************************************************************************)
(* Model of backend/setup_vector_search.py: setup_vector_search_indexes()  *)
(* builds three index definitions, draws one sample document from the      *)
(* medical_embeddings collection, tries to read the embedding dimension    *)
(* off it, writes that dimension into the two vector index definitions    *)
(* and returns the three definitions.                                      *)
(*                                                                         *)
(* Python dicts are records (a missing key is a missing record field),     *)
(* Python lists are sequences (fields[0] is index 1), a text is the        *)
(* sequence of its lexical tokens.                                         *)
(***************************************************************************)
EXTENDS Integers, Sequences, FiniteSets, TLC

VARIABLES db, pc, medical_embeddings_index, godzilla_index, drug_search_index,
          sample, stdout, queried, assigned, returned, firstPass

vars == <<db, pc, medical_embeddings_index, godzilla_index, drug_search_index,
          sample, stdout, queried, assigned, returned, firstPass>>

(***************************************************************************)
(* Bounds                                                                  *)
(***************************************************************************)
MaxDocs == 2            \* documents in medical_embeddings
MaxGodzillaDocs == 1    \* documents in godzilla_medical_dataset
MaxTokens == 3          \* tokens of an embedding text (second specification)
StrLiteralLen == 2      \* characters of the quoted literal the token "s" stands for
MaxStartDim == 2        \* starting numDimensions other than the placeholder

(***************************************************************************)
(* Values                                                                  *)
(***************************************************************************)
None == [none |-> TRUE]

\* a text is a sequence of tokens: "n" a number literal (0.1), "s" a quoted
\* string literal ('ab'), "x" anything that is not a literal (not-a-vector)
Tokens == {"[", "]", ",", "n", "s", "x"}

Str(text) == [type |-> "str", text |-> text]
NativeList(items) == [type |-> "list", items |-> items]
NativeInt == [type |-> "int"]

isinstance_str(v) == v.type = "str"

\* dict[key] = value
SetItem(dict, key, value) ==
    [k \in DOMAIN dict \cup {key} |-> IF k = key THEN value ELSE dict[k]]

(***************************************************************************)
(* ast.literal_eval followed by len(), on a token text                     *)
(***************************************************************************)
At(toks, i) == IF i > Len(toks) THEN "EOF" ELSE toks[i]

Failure == [ok |-> FALSE, next |-> 0, type |-> "none", len |-> 0, nums |-> FALSE]

RECURSIVE EndOfStrings(_, _)
EndOfStrings(toks, i) ==
    IF At(toks, i) = "s" THEN EndOfStrings(toks, i + 1) ELSE i

RECURSIVE ParseValue(_, _), ParseItems(_, _, _, _, _)
\* one literal starting at token i
ParseValue(toks, i) ==
    CASE At(toks, i) = "n" ->
           [ok |-> TRUE, next |-> i + 1, type |-> "num", len |-> 0, nums |-> FALSE]
      [] At(toks, i) = "s" ->
           \* adjacent string literals are concatenated
           LET j == EndOfStrings(toks, i) IN
           [ok |-> TRUE, next |-> j, type |-> "str",
            len |-> (j - i) * StrLiteralLen, nums |-> FALSE]
      [] At(toks, i) = "[" ->
           IF At(toks, i + 1) = "]"
           THEN [ok |-> TRUE, next |-> i + 2, type |-> "list", len |-> 0, nums |-> TRUE]
           ELSE ParseItems(toks, i + 1, 0, TRUE, "]")
      [] OTHER -> Failure

\* comma-separated literals up to the closing token, with an optional
\* trailing comma; count literals were read before token i
ParseItems(toks, i, count, nums, close) ==
    LET v == ParseValue(toks, i)
        allNums == nums /\ v.type = "num"
        kind == IF close = "]" THEN "list" ELSE "tuple"
        skip == IF close = "]" THEN 1 ELSE 0
    IN  IF ~v.ok THEN Failure
        ELSE IF At(toks, v.next) = close
        THEN [ok |-> TRUE, next |-> v.next + skip, type |-> kind,
              len |-> count + 1, nums |-> allNums]
        ELSE IF At(toks, v.next) = ","
        THEN IF At(toks, v.next + 1) = close
             THEN [ok |-> TRUE, next |-> v.next + 1 + skip, type |-> kind,
                   len |-> count + 1, nums |-> allNums]
             ELSE ParseItems(toks, v.next + 1, count + 1, allNums, close)
        ELSE Failure

\* the whole text: one literal, or a bare tuple a, b / a,
literal_eval(toks) ==
    LET v == ParseValue(toks, 1) IN
    IF ~v.ok THEN [raised |-> TRUE, value |-> Failure]
    ELSE IF v.next = Len(toks) + 1 THEN [raised |-> FALSE, value |-> v]
    ELSE IF At(toks, v.next) = ","
    THEN LET t == ParseItems(toks, 1, 0, TRUE, "EOF") IN
         IF t.ok THEN [raised |-> FALSE, value |-> t]
         ELSE [raised |-> TRUE, value |-> Failure]
    ELSE [raised |-> TRUE, value |-> Failure]

\* len(value): a number has no len() (TypeError)
HasLen(value) == value.type \in {"list", "tuple", "str"}

(***************************************************************************)
(* The index definitions, lines 32-130                                     *)
(***************************************************************************)
PlaceholderDimension == 384

\* line 32-53, with numDimensions as a parameter
MedicalEmbeddingsIndex(numDimensions) ==
    [name |-> "vector_index_medical",
     type |-> "vectorSearch",
     definition |-> [fields |-> <<
        [type |-> "vector", path |-> "embedding_vector",
         numDimensions |-> numDimensions, similarity |-> "cosine"],
        [type |-> "filter", path |-> "medical_specialty"],
        [type |-> "filter", path |-> "confidence_score"] >>]]

\* line 65-90, with numDimensions as a parameter
GodzillaIndex(numDimensions) ==
    [name |-> "vector_index_godzilla",
     type |-> "vectorSearch",
     definition |-> [fields |-> <<
        [type |-> "vector", path |-> "text_embedding",
         numDimensions |-> numDimensions, similarity |-> "cosine"],
        [type |-> "filter", path |-> "medical_specialty"],
        [type |-> "filter", path |-> "clinical_relevance_score"],
        [type |-> "filter", path |-> "age_groups"] >>]]

\* line 102-130
DrugSearchIndex ==
    [name |-> "drug_search_index",
     type |-> "search",
     definition |-> [mappings |->
        [dynamic |-> FALSE,
         fields |-> [drug_name |-> [type |-> "string", analyzer |-> "lucene.standard"],
                     generic_name |-> [type |-> "string", analyzer |-> "lucene.standard"],
                     indication |-> [type |-> "string", analyzer |-> "lucene.standard"],
                     age_group |-> [type |-> "string"],
                     route |-> [type |-> "string"]]]]]

(***************************************************************************)
(* The database: two collections, each a sequence of documents in natural  *)
(* order.  A document always has _id; _metadata and embedding are optional.*)
(***************************************************************************)
\* a run that samples the other collection
SampledCollection_godzilla == "godzilla_medical_dataset"

\* line 174
SampledCollection == "medical_embeddings"

\* embedding texts stored in the collections:
\*   "[]"  "[0.1]"  "[0.1, 0.1]"  "not-a-vector"  "'ab'"  "0.1"
SampleTexts ==
    { <<"[", "]">>, <<"[", "n", "]">>, <<"[", "n", ",", "n", "]">>,
      <<"x">>, <<"s">>, <<"n">> }

Embeddings ==
    {Str(t) : t \in SampleTexts} \cup {NativeList(<<1, 2, 3>>), NativeInt}

\* documents without the marker: no embedding field, or any of the embeddings
PlainDocuments ==
    {[_id |-> 1]} \cup {[_id |-> 1, embedding |-> e] : e \in Embeddings}

\* documents of a metadata pass, with and without an embedding "[0.1]"
MarkedDocuments ==
    { [_id |-> 1, _metadata |-> TRUE],
      [_id |-> 1, _metadata |-> TRUE, embedding |-> Str(<<"[", "n", "]">>)] }

Documents == PlainDocuments \cup MarkedDocuments

\* documents of godzilla_medical_dataset, which the run never reads
GodzillaDocuments ==
    { [_id |-> 1],
      [_id |-> 1, embedding |-> Str(<<"[", "n", "]">>)],
      [_id |-> 1, embedding |-> Str(<<"x">>)],
      [_id |-> 1, _metadata |-> TRUE, embedding |-> Str(<<"[", "n", "]">>)] }

SeqsUpTo(S, n) == UNION {[1..k -> S] : k \in 0..n}

\* find_one() without the filter: the first document, marked or not
find_one_unfiltered(docs) ==
    IF docs = <<>> THEN None ELSE Head(docs)

\* line 175: find_one({'_metadata': {'$exists': False}}): the first document
\* of the collection without the _metadata field, or None
RECURSIVE find_one(_)
find_one(docs) ==
    IF docs = <<>> THEN None
    ELSE IF "_metadata" \notin DOMAIN Head(docs) THEN Head(docs)
    ELSE find_one(Tail(docs))

(***************************************************************************)
(* Lines 177-198: the dimension analysis                                   *)
(***************************************************************************)
\* an assignment that adds to the declared dimension instead of replacing it
SetNumDimensions_accumulating(index, dimension) ==
    [index EXCEPT !.definition.fields[1] =
        SetItem(@, "numDimensions", @.numDimensions + dimension)]

\* an assignment to fields[1], the first filter field
SetNumDimensions_secondField(index, dimension) ==
    [index EXCEPT !.definition.fields[2] = SetItem(@, "numDimensions", dimension)]

\* line 191/192: index['definition']['fields'][0]['numDimensions'] = dimension
SetNumDimensions(index, dimension) ==
    [index EXCEPT !.definition.fields[1] = SetItem(@, "numDimensions", dimension)]

Untouched(medical, godzilla, out) ==
    [medical |-> medical, godzilla |-> godzilla, out |-> out, wrote |-> <<>>]

\* lines 190-194 without line 192
UpdateIndexDefinitions_medicalOnly(medical, godzilla, dimension) ==
    [medical |-> SetNumDimensions(medical, dimension),
     godzilla |-> godzilla,
     out |-> <<"dimension detected", "definitions updated">>,
     wrote |-> << [index |-> "medical_embeddings_index", value |-> dimension] >>]

\* lines 190-194
UpdateIndexDefinitions(medical, godzilla, dimension) ==
    [medical |-> SetNumDimensions(medical, dimension),
     godzilla |-> SetNumDimensions(godzilla, dimension),
     out |-> <<"dimension detected", "definitions updated">>,
     wrote |-> << [index |-> "medical_embeddings_index", value |-> dimension],
                  [index |-> "godzilla_index", value |-> dimension] >>]

\* an analysis that takes the length of a native list as the dimension
Analyze_nativeLength(s, medical, godzilla) ==
    IF s # None /\ "embedding" \in DOMAIN s
    THEN LET embedding_str == s.embedding IN
         IF isinstance_str(embedding_str)
         THEN LET embedding_list == literal_eval(embedding_str.text) IN
              IF embedding_list.raised \/ ~HasLen(embedding_list.value)
              THEN Untouched(medical, godzilla, <<"could not parse">>)
              ELSE UpdateIndexDefinitions(medical, godzilla, embedding_list.value.len)
         ELSE IF embedding_str.type = "list"
         THEN UpdateIndexDefinitions(medical, godzilla, Len(embedding_str.items))
         ELSE Untouched(medical, godzilla, <<"format not recognized">>)
    ELSE Untouched(medical, godzilla, <<>>)

\* lines 177-198 on sample s and the two vector index definitions: the new
\* definitions, what is printed, and the assignments made
Analyze(s, medical, godzilla) ==
    IF s # None /\ "embedding" \in DOMAIN s
    THEN LET embedding_str == s.embedding IN
         IF isinstance_str(embedding_str)
         THEN LET embedding_list == literal_eval(embedding_str.text) IN
              IF embedding_list.raised \/ ~HasLen(embedding_list.value)
              THEN \* except Exception, line 197
                   Untouched(medical, godzilla, <<"could not parse">>)
              ELSE UpdateIndexDefinitions(medical, godzilla, embedding_list.value.len)
         ELSE Untouched(medical, godzilla, <<"format not recognized">>)
    ELSE Untouched(medical, godzilla, <<>>)

\* a return value that leaves the text index out
ReturnValue_withoutDrugIndex(medical, godzilla, drug) ==
    [medical_embeddings_index |-> medical,
     godzilla_index |-> godzilla]

\* line 213-217
ReturnValue(medical, godzilla, drug) ==
    [medical_embeddings_index |-> medical,
     godzilla_index |-> godzilla,
     drug_search_index |-> drug]

(***************************************************************************)
(* One run of setup_vector_search_indexes                                  *)
(***************************************************************************)
Init ==
    /\ db \in [medical_embeddings : SeqsUpTo(Documents, MaxDocs),
               godzilla_medical_dataset : SeqsUpTo(GodzillaDocuments, MaxGodzillaDocs)]
    /\ pc = "build"
    /\ medical_embeddings_index = None
    /\ godzilla_index = None
    /\ drug_search_index = None
    /\ sample = None
    /\ stdout = <<>>
    /\ queried = <<>>
    /\ assigned = <<>>
    /\ returned = None
    /\ firstPass = None

\* lines 32-130
Build ==
    /\ pc = "build"
    /\ medical_embeddings_index' = MedicalEmbeddingsIndex(PlaceholderDimension)
    /\ godzilla_index' = GodzillaIndex(PlaceholderDimension)
    /\ drug_search_index' = DrugSearchIndex
    /\ pc' = "sample"
    /\ UNCHANGED <<db, sample, stdout, queried, assigned, returned, firstPass>>

\* lines 174-175
FetchSample ==
    /\ pc = "sample"
    /\ sample' = find_one(db[SampledCollection])
    /\ queried' = Append(queried, SampledCollection)
    /\ pc' = "analyze"
    /\ UNCHANGED <<db, medical_embeddings_index, godzilla_index, drug_search_index,
                   stdout, assigned, returned, firstPass>>

\* lines 177-198
AnalyzeSample ==
    /\ pc = "analyze"
    /\ LET r == Analyze(sample, medical_embeddings_index, godzilla_index) IN
         /\ medical_embeddings_index' = r.medical
         /\ godzilla_index' = r.godzilla
         /\ stdout' = stdout \o r.out
         /\ assigned' = assigned \o r.wrote
    /\ pc' = "return"
    /\ UNCHANGED <<db, drug_search_index, sample, queried, returned, firstPass>>

\* lines 211-217
Return ==
    /\ pc = "return"
    /\ returned' = ReturnValue(medical_embeddings_index, godzilla_index, drug_search_index)
    /\ pc' = "done"
    /\ UNCHANGED <<db, medical_embeddings_index, godzilla_index, drug_search_index,
                   sample, stdout, queried, assigned, firstPass>>

Next == Build \/ FetchSample \/ AnalyzeSample \/ Return

Spec == Init /\ [][Next]_vars

(***************************************************************************)
(* Lines 177-198 applied twice to the same sample: the first pass starts   *)
(* from definitions with any starting dimension, the second from what the  *)
(* first produced.                                                         *)
(***************************************************************************)
Texts == SeqsUpTo(Tokens, MaxTokens)

PassSamples ==
    {None, [_id |-> 1]}
    \cup {[_id |-> 1, embedding |-> e] :
            e \in {Str(t) : t \in Texts} \cup {NativeList(<<1, 2, 3>>), NativeInt}}

StartDimensions == {PlaceholderDimension} \cup 1..MaxStartDim

InitTwice ==
    /\ sample \in PassSamples
    /\ db = [medical_embeddings |-> IF sample = None THEN <<>> ELSE <<sample>>,
             godzilla_medical_dataset |-> <<>>]
    /\ pc = "first"
    /\ \E d \in StartDimensions : medical_embeddings_index = MedicalEmbeddingsIndex(d)
    /\ \E d \in StartDimensions : godzilla_index = GodzillaIndex(d)
    /\ drug_search_index = DrugSearchIndex
    /\ stdout = <<>>
    /\ queried = <<SampledCollection>>
    /\ assigned = <<>>
    /\ returned = None
    /\ firstPass = None

FirstPass ==
    /\ pc = "first"
    /\ LET r == Analyze(sample, medical_embeddings_index, godzilla_index) IN
         /\ medical_embeddings_index' = r.medical
         /\ godzilla_index' = r.godzilla
         /\ stdout' = stdout \o r.out
         /\ assigned' = assigned \o r.wrote
         /\ firstPass' = [medical |-> r.medical, godzilla |-> r.godzilla]
    /\ pc' = "second"
    /\ UNCHANGED <<db, drug_search_index, sample, queried, returned>>

SecondPass ==
    /\ pc = "second"
    /\ LET r == Analyze(sample, medical_embeddings_index, godzilla_index) IN
         /\ medical_embeddings_index' = r.medical
         /\ godzilla_index' = r.godzilla
         /\ stdout' = stdout \o r.out
         /\ assigned' = assigned \o r.wrote
    /\ pc' = "twice"
    /\ UNCHANGED <<db, drug_search_index, sample, queried, returned, firstPass>>

NextTwice == FirstPass \/ SecondPass

SpecTwice == InitTwice /\ [][NextTwice]_vars

(***************************************************************************)
(* Vocabulary of the properties                                            *)
(***************************************************************************)
ArtifactKeys == {"medical_embeddings_index", "godzilla_index", "drug_search_index"}

VectorKeys == {"medical_embeddings_index", "godzilla_index"}

\* the collection each vector index is to be created on (lines 58 and 95)
OwnCollection ==
    [medical_embeddings_index |-> "medical_embeddings",
     godzilla_index |-> "godzilla_medical_dataset"]

NumDimensions(index) == index.definition.fields[1].numDimensions

Range(seq) == {seq[i] : i \in DOMAIN seq}

Occurrences(seq, x) == Cardinality({i \in DOMAIN seq : seq[i] = x})

Built == pc \notin {"build"}

Finished == pc = "done"

AllMarked(docs) == \A i \in DOMAIN docs : "_metadata" \in DOMAIN docs[i]

\* the first document of a collection that does not carry the marker
Qualifying(docs) ==
    IF AllMarked(docs) THEN None
    ELSE docs[CHOOSE i \in DOMAIN docs :
                /\ "_metadata" \notin DOMAIN docs[i]
                /\ \A j \in 1..(i - 1) : "_metadata" \in DOMAIN docs[j]]

HasEmbedding(s) == s # None /\ "embedding" \in DOMAIN s

IsTextEmbedding(s) == HasEmbedding(s) /\ s.embedding.type = "str"

IsNativeSequence(s) == HasEmbedding(s) /\ s.embedding.type = "list"

\* the text of s evaluates to a value that has a length
Parseable(s) ==
    /\ IsTextEmbedding(s)
    /\ ~literal_eval(s.embedding.text).raised
    /\ HasLen(literal_eval(s.embedding.text).value)

ParsedLength(s) == literal_eval(s.embedding.text).value.len

\* the text of s evaluates to a list or tuple of numbers
IsSequenceOfNumbers(s) ==
    /\ Parseable(s)
    /\ literal_eval(s.embedding.text).value.type \in {"list", "tuple"}
    /\ literal_eval(s.embedding.text).value.nums

Warnings == {"could not parse", "format not recognized"}

(***************************************************************************)
(* C1                                                                      *)
(***************************************************************************)
\* C1: every run, whatever the sample, goes on to its return, and what it
\* returns has exactly the keys medical_embeddings_index, godzilla_index and
\* drug_search_index, each mapped to its index definition.
AlwaysReturnsAllIndexes ==
    /\ ~Finished => ENABLED Next
    /\ Finished =>
         /\ DOMAIN returned = ArtifactKeys
         /\ returned.medical_embeddings_index = medical_embeddings_index
         /\ returned.godzilla_index = godzilla_index
         /\ returned.drug_search_index = drug_search_index
         /\ returned.medical_embeddings_index.name = "vector_index_medical"
         /\ returned.godzilla_index.name = "vector_index_godzilla"
         /\ returned.drug_search_index.name = "drug_search_index"

\* a finished run whose sample failed to parse
ReturnedAfterParseFailure ==
    /\ Finished
    /\ stdout = <<"could not parse">>
    /\ DOMAIN returned = ArtifactKeys

DimensionsArePositive ==
    /\ \A i \in DOMAIN assigned : assigned[i].value > 0
    /\ Finished =>
         \A key \in VectorKeys : NumDimensions(returned[key]) > 0

(***************************************************************************)
(* C6                                                                      *)
(***************************************************************************)
\* C6: when the sample's embedding is a text that does not evaluate to a
\* sequence of numbers, no definition is modified: every vector field keeps
\* the placeholder 384 and the run returns.
MalformedTextKeepsPlaceholder ==
    (Finished /\ IsTextEmbedding(sample) /\ ~IsSequenceOfNumbers(sample)) =>
       /\ assigned = <<>>
       /\ \A key \in VectorKeys : NumDimensions(returned[key]) = PlaceholderDimension

(***************************************************************************)
(* C7                                                                      *)
(***************************************************************************)
\* C7: the sample never carries the _metadata marker; when the collection is
\* empty or every document carries the marker there is no sample, nothing is
\* assigned, both placeholders stay and the run goes on to return.
SampleNeverMarked ==
    /\ sample # None => "_metadata" \notin DOMAIN sample
    /\ (pc \in {"analyze", "return", "done"} /\ AllMarked(db.medical_embeddings)) =>
         /\ sample = None
         /\ assigned = <<>>
         /\ stdout = <<>>
         /\ NumDimensions(medical_embeddings_index) = PlaceholderDimension
         /\ NumDimensions(godzilla_index) = PlaceholderDimension
         /\ pc # "done" => ENABLED Next
         /\ pc = "done" => DOMAIN returned = ArtifactKeys

\* a finished run on a collection of marked documents only, one of which has
\* an embedding that would parse
MarkedDocumentsSkipped ==
    /\ Finished
    /\ db.medical_embeddings # <<>>
    /\ AllMarked(db.medical_embeddings)
    /\ \E i \in DOMAIN db.medical_embeddings :
          /\ "embedding" \in DOMAIN db.medical_embeddings[i]
          /\ Parseable([_id |-> 1, embedding |-> db.medical_embeddings[i].embedding])
    /\ NumDimensions(returned.medical_embeddings_index) = PlaceholderDimension

(***************************************************************************)
(* C8                                                                      *)
(***************************************************************************)
\* C8: every vector index that ends the run without an assignment has a
\* recorded reason: a status on its entry of the artifact, or a warning in
\* the report.
UnappliedHasReason ==
    Finished =>
      \A key \in VectorKeys :
        (\A i \in DOMAIN assigned : assigned[i].index # key) =>
           \/ "status" \in DOMAIN returned[key]
           \/ "reason" \in DOMAIN returned[key]
           \/ Range(stdout) \cap Warnings # {}

(***************************************************************************)
(* C9                                                                      *)
(***************************************************************************)
\* C9: a second pass on the same sample, from the definitions the first pass
\* produced, leaves both definitions exactly as the first pass left them,
\* and both passes assign the same dimension.
SecondPassChangesNothing ==
    /\ pc = "twice" =>
         /\ medical_embeddings_index = firstPass.medical
         /\ godzilla_index = firstPass.godzilla
    /\ \A i, j \in DOMAIN assigned : assigned[i].value = assigned[j].value

\* two passes that both assigned a dimension other than the starting ones
AppliedTwice ==
    /\ pc = "twice"
    /\ Len(assigned) = 4
    /\ assigned[1].value \notin StartDimensions
    /\ NumDimensions(medical_embeddings_index) = assigned[1].value
    /\ NumDimensions(godzilla_index) = assigned[1].value

(***************************************************************************)
(* C10                                                                     *)
(***************************************************************************)
\* C10: the analysis changes nothing but numDimensions of the vector field,
\* which is fields[0], at most once per definition: names, types, paths,
\* similarity, filter fields and the whole drug_search_index are as built.
OnlyNumDimensionsChanges ==
    /\ Built =>
         /\ medical_embeddings_index =
               MedicalEmbeddingsIndex(NumDimensions(medical_embeddings_index))
         /\ godzilla_index = GodzillaIndex(NumDimensions(godzilla_index))
         /\ drug_search_index = DrugSearchIndex
         /\ medical_embeddings_index.definition.fields[1].type = "vector"
         /\ godzilla_index.definition.fields[1].type = "vector"
    /\ \A key \in VectorKeys : Occurrences([i \in DOMAIN assigned |-> assigned[i].index], key) <= 1
    /\ Finished =>
         /\ returned.medical_embeddings_index =
               MedicalEmbeddingsIndex(NumDimensions(returned.medical_embeddings_index))
         /\ returned.godzilla_index = GodzillaIndex(NumDimensions(returned.godzilla_index))
         /\ returned.drug_search_index = DrugSearchIndex

\* a finished run that assigned a new dimension to both definitions
DimensionOverwritten ==
    /\ Finished
    /\ Len(assigned) = 2
    /\ NumDimensions(returned.medical_embeddings_index) = 2
    /\ NumDimensions(returned.godzilla_index) = 2
    /\ returned.drug_search_index = DrugSearchIndex

====
